---- MODULE Spec2Model ----
(***************************************************************************)
(* Model of the LeaderOracle API (src/api/v1/endpoints.py, src/main.py,    *)
(* src/api/core/config.py) and of the SUPERT quality harness               *)
(* (src/tests/supert_test.py).                                             *)
(*                                                                         *)
(* Strings that the code inspects character by character (auth keys,       *)
(* generated text) are sequences of one-character strings.  Floating point *)
(* values are exact rationals [n |-> numerator, d |-> denominator], d > 0, *)
(* kept in lowest terms; rounding of IEEE doubles is not modelled.         *)
(***************************************************************************)
EXTENDS Integers, Sequences, FiniteSets, TLC

VARIABLES
    settings,   \* api.core.config.settings
    req,        \* the requests being handled, by request number
    log,        \* records written through logger.error
    stdout,     \* what the API process printed
    metric,     \* one call of SUPERTMetric.calculate_score
    tester,     \* one call of InferenceQualityTester.run_test
    files       \* files written by the harness

vars == <<settings, req, log, stdout, metric, tester, files>>
apiVars == <<settings, req, log, stdout>>

----------------------------------------------------------------------------
(* Bounds of the model *)

\* number of HTTP requests that may be in flight together
NumReq == 2
\* largest num_batches a client sends
MaxBatches == 2
\* a text is at most this many pieces (words, blanks) long
MaxPieces == 3
\* cosine similarities are the multiples of 1/SimDen in [-1, 1]
SimDen == 1
\* largest num_tests handed to run_test
MaxTests == 2

----------------------------------------------------------------------------
(* Characters and strings *)

Range(s) == {s[i] : i \in DOMAIN s}

\* str.lower() on one character
LowerChar(c) == CASE c = "A" -> "a" [] c = "B" -> "b" [] OTHER -> c

\* str.lower()
Lower(s) == [i \in DOMAIN s |-> LowerChar(s[i])]

----------------------------------------------------------------------------
(* Exact rational arithmetic standing for Python floats *)

Abs(x) == IF x < 0 THEN -x ELSE x

RECURSIVE GCD(_, _)
GCD(a, b) == IF b = 0 THEN a ELSE GCD(b, a % b)

\* the rational n/d (d # 0) in lowest terms with a positive denominator
Rat(n, d) ==
    LET g == GCD(Abs(n), Abs(d))
        sgn == IF d < 0 THEN -1 ELSE 1
    IN  [n |-> sgn * (n \div g), d |-> sgn * (d \div g)]

Int2Rat(k) == [n |-> k, d |-> 1]
RAdd(a, b) == Rat(a.n * b.d + b.n * a.d, a.d * b.d)
RSub(a, b) == Rat(a.n * b.d - b.n * a.d, a.d * b.d)
RMul(a, b) == Rat(a.n * b.n, a.d * b.d)
\* a / b, for b # 0
RDiv(a, b) == Rat(a.n * b.d, a.d * b.n)
RLeq(a, b) == a.n * b.d <= b.n * a.d
RLess(a, b) == a.n * b.d < b.n * a.d
\* min(a, b)
RMin(a, b) == IF RLess(b, a) THEN b ELSE a

----------------------------------------------------------------------------
(* Request parameters *)

Keys == {<<"a", "b", "1">>, <<"A", "B", "1">>}

Endpoints == {"inference", "batch_inference", "login"}

InputContexts == {"hello"}

\* texts the generative model may answer with
Texts == {"t1", "t2"}

NoneVal == "None"

\* defaults of the query parameters
InferenceMaxLength == 512
InferenceTemperature == 3
BatchNumBatches == 1
BatchMaxLength == 128
BatchTemperature == 7

NumBatchesValues == {BatchNumBatches} \cup ((-1) .. MaxBatches)

----------------------------------------------------------------------------
(* api.services (external to src/): behaviour taken from the specification *)

\* AuthenticationService(auth_key)
AuthenticationService(auth_key) == [auth_key |-> auth_key]

\* AuthenticationService.is_valid
is_valid(svc) == svc.auth_key = settings.AUTH_KEY

AuthErrorMsg == "Invalid authentication key"

\* messages of the exceptions the inference service may raise
CtorErrors == {"model load failed"}
GenErrors == {"generation error"}

\* outcomes of InferenceService(auth_key)
CtorOutcomes == {"ok"} \cup CtorErrors

\* outcomes of generate_text(input_context, ...)
GenerateTextOutcomes == [kind : {"ok"}, value : Texts]
                          \cup [kind : {"raise"}, value : GenErrors]

\* outcomes of generate_text_with_batch_size(input_contexts, ...): one text
\* for each input, or an exception
BatchOutcomes(input_contexts) ==
    [kind : {"ok"}, value : [1 .. Len(input_contexts) -> Texts]]
      \cup [kind : {"raise"}, value : GenErrors]

----------------------------------------------------------------------------
(* Python lists *)

\* the input wrapped in a list but not repeated
RepeatOnce(x, n) == <<x>>

\* [x] * n: n copies of x, the empty list for n <= 0
Repeat(x, n) == [i \in 1 .. n |-> x]

----------------------------------------------------------------------------
(* State of one request *)

NoResponse == [status |-> 0]
NoOutcome == [kind |-> "none", value |-> NoneVal]

IdleRequest ==
    [pc |-> "idle", endpoint |-> NoneVal, auth_key |-> <<>>,
     input_context |-> NoneVal, num_batches |-> 0, max_length |-> 0,
     temperature |-> 0, inference_service |-> NoneVal,
     authentication_service |-> NoneVal, checked |-> FALSE, calls |-> <<>>,
     ctor |-> NoneVal, gen |-> NoOutcome, exc |-> NoneVal,
     printed |-> <<>>, response |-> NoResponse]

Requests == 1 .. NumReq

\* raise HTTPException(status_code=500, detail=f"<prefix>: {str(e)}")
ErrorPrefix(endpoint) ==
    CASE endpoint = "inference" -> "Text generation failed: "
      [] endpoint = "batch_inference" -> "Batch text generation failed: "
      [] endpoint = "login" -> "Login failed: "

LogPrefix(endpoint) ==
    CASE endpoint = "inference" -> "Error during inference: "
      [] endpoint = "batch_inference" -> "Error during batch inference: "
      [] endpoint = "login" -> "Login error: "

HTTPException(status_code, detail) ==
    [status |-> status_code, detail |-> detail]

JSONResponse(body) == [status |-> 200, body |-> body]

----------------------------------------------------------------------------
(* The handlers, one action per call of a service; an exception raised by
   the call is handled, by the handler's except clause, in the same step *)

\* the HTTP layer hands a request to its handler
Arrive(r, endpoint, auth_key, input_context, num_batches, max_length, temperature) ==
    /\ req[r].pc = "idle"
    /\ req' = [req EXCEPT ![r] =
                 [IdleRequest EXCEPT
                    !.pc = IF endpoint = "login" THEN "auth_construct"
                                                 ELSE "construct",
                    !.endpoint = endpoint, !.auth_key = auth_key,
                    !.input_context = input_context,
                    !.num_batches = num_batches,
                    !.max_length = max_length,
                    !.temperature = temperature]]
    /\ UNCHANGED <<settings, log, stdout, metric, tester, files>>

\* an authentication failure answered with 401 instead of 500
handle_exception_401(endpoint, e) ==
    [log_line |-> LogPrefix(endpoint) \o e,
     response |-> HTTPException(IF e = AuthErrorMsg THEN 401 ELSE 500,
                                ErrorPrefix(endpoint) \o e)]

\* the exception's message dropped from the detail
handle_exception_generic(endpoint, e) ==
    [log_line |-> LogPrefix(endpoint) \o e,
     response |-> HTTPException(500, ErrorPrefix(endpoint))]

\* except Exception as e: logger.error(...); raise HTTPException(500, ...)
handle_exception(endpoint, e) ==
    [log_line |-> LogPrefix(endpoint) \o e,
     response |-> HTTPException(500, ErrorPrefix(endpoint) \o e)]

\* request r, its locals being rec, raises e inside the try block
Raise(r, rec, e) ==
    LET handled == handle_exception(rec.endpoint, e)
    IN  /\ log' = Append(log, handled.log_line)
        /\ req' = [req EXCEPT ![r] = [rec EXCEPT !.exc = e,
                                                 !.response = handled.response,
                                                 !.pc = "done"]]

\* inference_service = InferenceService(auth_key)
service_construct(r) ==
    /\ req[r].pc = "construct"
    /\ \E o \in CtorOutcomes :
         IF o = "ok"
         THEN /\ req' = [req EXCEPT
                           ![r].ctor = o,
                           ![r].inference_service =
                               [auth_key |-> req[r].auth_key],
                           ![r].pc = "authenticate"]
              /\ log' = log
         ELSE Raise(r, [req[r] EXCEPT !.ctor = o], o)
    /\ UNCHANGED <<settings, stdout, metric, tester, files>>

\* the key check left out: generation follows construction directly
authenticate_skip(r) ==
    /\ req[r].pc = "authenticate"
    /\ req' = [req EXCEPT ![r].pc = "generate"]
    /\ UNCHANGED <<settings, log, stdout, metric, tester, files>>

\* AuthenticationService(auth_key).raise_exception_if_invalid()
authenticate(r) ==
    /\ req[r].pc = "authenticate"
    /\ LET svc == AuthenticationService(req[r].auth_key)
       IN  IF is_valid(svc)
           THEN /\ req' = [req EXCEPT ![r].checked = TRUE,
                                      ![r].pc = "generate"]
                /\ log' = log
           ELSE Raise(r, req[r], AuthErrorMsg)
    /\ UNCHANGED <<settings, stdout, metric, tester, files>>

\* generated_text = inference_service.generate_text(...); return {...}
inference_generate(r) ==
    /\ req[r].pc = "generate"
    /\ req[r].endpoint = "inference"
    /\ LET call == [method |-> "generate_text",
                    service |-> req[r].inference_service,
                    input |-> req[r].input_context,
                    max_length |-> req[r].max_length,
                    temperature |-> req[r].temperature]
           called(o) == [req[r] EXCEPT !.calls = Append(@, call), !.gen = o]
       IN  \E o \in GenerateTextOutcomes :
             IF o.kind = "ok"
             THEN /\ req' = [req EXCEPT ![r] =
                               [called(o) EXCEPT
                                  !.response =
                                      JSONResponse(
                                        [generated_text |-> o.value]),
                                  !.pc = "done"]]
                  /\ log' = log
             ELSE Raise(r, called(o), o.value)
    /\ UNCHANGED <<settings, stdout, metric, tester, files>>

\* input_contexts = [input_context] * num_batches;
\* generated_texts = inference_service.generate_text_with_batch_size(...)
batch_generate(r) ==
    /\ req[r].pc = "generate"
    /\ req[r].endpoint = "batch_inference"
    /\ LET input_contexts == Repeat(req[r].input_context, req[r].num_batches)
           call == [method |-> "generate_text_with_batch_size",
                    service |-> req[r].inference_service,
                    input |-> input_contexts,
                    batch_size |-> req[r].num_batches,
                    max_length |-> req[r].max_length,
                    temperature |-> req[r].temperature]
           called(o) == [req[r] EXCEPT !.calls = Append(@, call), !.gen = o]
       IN  \E o \in BatchOutcomes(input_contexts) :
             IF o.kind = "ok"
             THEN /\ req' = [req EXCEPT ![r] =
                               [called(o) EXCEPT
                                  !.response =
                                      JSONResponse(
                                        [generated_texts |-> o.value]),
                                  !.pc = "done"]]
                  /\ log' = log
             ELSE Raise(r, called(o), o.value)
    /\ UNCHANGED <<settings, stdout, metric, tester, files>>

\* one AuthenticationService shared by the whole module: constructing it
\* for one request replaces the instance every login in flight holds
login_construct_shared(r) ==
    /\ req[r].pc = "auth_construct"
    /\ req' = [q \in Requests |->
                 IF q = r
                 THEN [req[q] EXCEPT
                         !.authentication_service =
                             AuthenticationService(req[r].auth_key),
                         !.pc = "print"]
                 ELSE IF req[q].pc \in {"print", "return"}
                      THEN [req[q] EXCEPT
                              !.authentication_service =
                                  AuthenticationService(req[r].auth_key)]
                      ELSE req[q]]
    /\ UNCHANGED <<settings, log, stdout, metric, tester, files>>

\* authentication_service = AuthenticationService(auth_key)
login_construct(r) ==
    /\ req[r].pc = "auth_construct"
    /\ req' = [req EXCEPT
                 ![r].authentication_service =
                     AuthenticationService(req[r].auth_key),
                 ![r].pc = "print"]
    /\ UNCHANGED <<settings, log, stdout, metric, tester, files>>

\* print({'authenticated' : authentication_service.is_valid()})
login_print(r) ==
    /\ req[r].pc = "print"
    /\ LET line == [authenticated |->
                       is_valid(req[r].authentication_service)]
       IN  /\ stdout' = Append(stdout, line)
           /\ req' = [req EXCEPT ![r].printed = Append(@, line),
                                  ![r].pc = "return"]
    /\ UNCHANGED <<settings, log, metric, tester, files>>


\* is_valid named but not called: a bound method is always truthy
login_return_truthy(r) ==
    /\ req[r].pc = "return"
    /\ req' = [req EXCEPT
                 ![r].response = JSONResponse([authenticated |-> TRUE]),
                 ![r].pc = "done"]
    /\ UNCHANGED <<settings, log, stdout, metric, tester, files>>

\* return {'authenticated' : authentication_service.is_valid()}
login_return(r) ==
    /\ req[r].pc = "return"
    /\ req' = [req EXCEPT
                 ![r].response =
                     JSONResponse([authenticated |->
                        is_valid(req[r].authentication_service)]),
                 ![r].pc = "done"]
    /\ UNCHANGED <<settings, log, stdout, metric, tester, files>>

----------------------------------------------------------------------------
(* SUPERTMetric: texts *)

IsSpace(c) == c \in {" ", "\n"}

\* str.split(): the maximal runs of non-whitespace characters, in order
split(s) ==
    LET starts == {i \in 1 .. Len(s) :
                     ~IsSpace(s[i]) /\ (i = 1 \/ IsSpace(s[i - 1]))}
        start(n) == CHOOSE i \in starts :
                      Cardinality({j \in starts : j < i}) = n - 1
        end(i) == CHOOSE j \in i .. Len(s) :
                    /\ \A k \in i .. j : ~IsSpace(s[k])
                    /\ j = Len(s) \/ IsSpace(s[j + 1])
    IN  [n \in 1 .. Cardinality(starts) |-> SubSeq(s, start(n), end(start(n)))]

\* sum(len(word) for word in words)
RECURSIVE SumLen(_)
SumLen(words) ==
    IF words = <<>> THEN 0 ELSE Len(Head(words)) + SumLen(Tail(words))

\* len(sent_tokenize(text)): the Punkt tokenizer yields no sentence for a
\* blank text and otherwise breaks only after a word that ends a sentence
\* and is followed by another word; whether it breaks there depends on its
\* trained parameters, so every such count is possible
sent_tokenize_len(text) ==
    LET words == split(text)
        breaks == {i \in 1 .. Len(words) - 1 :
                     words[i][Len(words[i])] \in {".", "!", "?"}}
    IN  IF words = <<>> THEN {0} ELSE 1 .. (1 + Cardinality(breaks))

LongWord == [i \in 1 .. 21 |-> "x"]

Pieces == {<<"a">>, <<"A">>, <<"b", ".">>, <<" ">>, LongWord}

RECURSIVE Flatten(_)
Flatten(ss) == IF ss = <<>> THEN <<>> ELSE Head(ss) \o Flatten(Tail(ss))

\* the texts the scorer is run on
Hypotheses ==
    {Flatten(ps) : ps \in UNION {[1 .. k -> Pieces] : k \in 0 .. MaxPieces}}

References == {<<"a">>, <<"b", ".">>}

\* values of sklearn's cosine_similarity
Similarities == {Rat(k, SimDen) : k \in (-SimDen) .. SimDen}

----------------------------------------------------------------------------
(* SUPERTMetric: scores *)

Returned(v) == [kind |-> "return", value |-> v, error |-> NoneVal]
Raised(e) == [kind |-> "raise", value |-> Int2Rat(0), error |-> e]


\* the weighted sum returned without the cap at 1.0
calculate_insight_score_uncapped(text, num_sentences) ==
    LET word_count == Len(split(text))
        unique_words == Cardinality(Range(split(Lower(text))))
    IN  IF num_sentences = 0 \/ word_count = 0
        THEN Raised("ZeroDivisionError")
        ELSE Returned(
               RAdd(RAdd(RMul(Rat(4, 10), Rat(unique_words, word_count)),
                         RDiv(RMul(Rat(3, 10),
                                   Rat(word_count, num_sentences)),
                              Int2Rat(20))),
                    RDiv(RMul(Rat(3, 10),
                              Rat(SumLen(split(text)), word_count)),
                         Int2Rat(10))))

\* a guard added for texts without words: they score 0
calculate_insight_score_guarded(text, num_sentences) ==
    LET word_count == Len(split(text))
        unique_words == Cardinality(Range(split(Lower(text))))
    IN  IF num_sentences = 0 \/ word_count = 0
        THEN Returned(Int2Rat(0))
        ELSE Returned(RMin(
               RAdd(RAdd(RMul(Rat(4, 10), Rat(unique_words, word_count)),
                         RDiv(RMul(Rat(3, 10),
                                   Rat(word_count, num_sentences)),
                              Int2Rat(20))),
                    RDiv(RMul(Rat(3, 10),
                              Rat(SumLen(split(text)), word_count)),
                         Int2Rat(10))),
               Int2Rat(1)))

\* SUPERTMetric.calculate_insight_score, given len(sentences)
calculate_insight_score(text, num_sentences) ==
    LET word_count == Len(split(text))
        unique_words == Cardinality(Range(split(Lower(text))))
    IN  IF num_sentences = 0 \/ word_count = 0
        THEN Raised("ZeroDivisionError")
        ELSE LET avg_sentence_length == Rat(word_count, num_sentences)
                 lexical_diversity == Rat(unique_words, word_count)
                 avg_word_complexity == Rat(SumLen(split(text)), word_count)
                 insight_score ==
                     RAdd(RAdd(RMul(Rat(4, 10), lexical_diversity),
                               RDiv(RMul(Rat(3, 10), avg_sentence_length),
                                    Int2Rat(20))),
                          RDiv(RMul(Rat(3, 10), avg_word_complexity),
                               Int2Rat(10)))
             IN  Returned(RMin(insight_score, Int2Rat(1)))

\* SUPERTMetric.calculate_score, given the cosine similarity of the two
\* embeddings and len(sentences) of the hypothesis
calculate_score(reference, hypothesis, similarity, num_sentences) ==
    LET originality_score == RSub(Int2Rat(1), similarity)
        insight == calculate_insight_score(hypothesis, num_sentences)
    IN  IF insight.kind = "raise"
        THEN insight
        ELSE Returned(RAdd(RMul(Rat(5, 10), originality_score),
                           RMul(Rat(5, 10), insight.value)))

\* InferenceQualityTester.interpret_score
interpret_score(score) ==
    IF RLess(score, Rat(4, 10)) THEN "Poor"
    ELSE IF RLess(score, Rat(6, 10)) THEN "Fair"
    ELSE IF RLess(score, Rat(8, 10)) THEN "Good"
    ELSE "Excellent"

IdleMetric ==
    [pc |-> "idle", reference |-> <<>>, hypothesis |-> <<>>,
     similarity |-> Int2Rat(0), num_sentences |-> 0,
     insight |-> Raised(NoneVal), result |-> Raised(NoneVal)]

\* one evaluation of supert_metric.calculate_score(reference, hypothesis)
ScoreCall ==
    /\ metric.pc = "call"
    /\ \E sim \in Similarities,
          ns \in sent_tokenize_len(metric.hypothesis) :
         metric' = [metric EXCEPT
                      !.pc = "done",
                      !.similarity = sim,
                      !.num_sentences = ns,
                      !.insight =
                          calculate_insight_score(metric.hypothesis, ns),
                      !.result =
                          calculate_score(metric.reference,
                                          metric.hypothesis, sim, ns)]
    /\ UNCHANGED <<settings, req, log, stdout, tester, files>>

----------------------------------------------------------------------------
(* InferenceQualityTester.run_test *)

\* len(RandomPromptGenerator().situations)
NumSituations == 10

\* random.choice(self.situations), by position in the list
Situations == 1 .. NumSituations

\* texts the inference service may generate for a prompt
Generations == {<<>>, <<" ">>, <<"a", " ", "A">>}

IdleTester ==
    [pc |-> "idle", num_tests |-> 0, i |-> 0, total_score |-> Int2Rat(0),
     prompt |-> 0, generated_text |-> <<>>, calls |-> <<>>,
     console |-> <<>>, result |-> Raised(NoneVal)]

Call(fn, i, prompt, text) ==
    [fn |-> fn, i |-> i, prompt |-> prompt, text |-> text]

\* prompt = self.prompt_generator.generate_prompt()
rt_generate_prompt ==
    /\ tester.pc = "loop"
    /\ tester.i < tester.num_tests
    /\ \E p \in Situations :
         tester' = [tester EXCEPT
                      !.prompt = p,
                      !.calls = Append(@, Call("generate_prompt", tester.i,
                                               0, <<>>)),
                      !.pc = "infer"]
    /\ UNCHANGED <<settings, req, log, stdout, metric, files>>

\* generated_text = self.inference_service.generate_text(prompt)
rt_generate_text ==
    /\ tester.pc = "infer"
    /\ LET call == Call("generate_text", tester.i, tester.prompt, <<>>)
       IN  \/ \E t \in Generations :
                tester' = [tester EXCEPT
                             !.generated_text = t,
                             !.calls = Append(@, call),
                             !.pc = "score"]
           \/ \E e \in GenErrors :
                tester' = [tester EXCEPT
                             !.calls = Append(@, call),
                             !.result = Raised(e),
                             !.pc = "raised"]
    /\ UNCHANGED <<settings, req, log, stdout, metric, files>>


\* total_score = score in place of total_score += score
rt_score_overwrite ==
    /\ tester.pc = "score"
    /\ LET call == Call("calculate_score", tester.i, tester.prompt,
                        tester.generated_text)
       IN  \E sim \in Similarities,
              ns \in sent_tokenize_len(tester.generated_text) :
             LET score == calculate_score(tester.prompt,
                                          tester.generated_text, sim, ns)
             IN  IF score.kind = "raise"
                 THEN tester' = [tester EXCEPT
                                   !.calls = Append(@, call),
                                   !.result = score,
                                   !.pc = "raised"]
                 ELSE tester' =
                        [tester EXCEPT
                           !.calls = Append(@, call),
                           !.total_score = score.value,
                           !.console = Append(@,
                              [test |-> tester.i + 1,
                               prompt |-> tester.prompt,
                               generated_text |-> tester.generated_text,
                               score |-> score.value,
                               quality |-> interpret_score(score.value)]),
                           !.i = @ + 1,
                           !.pc = "loop"]
    /\ UNCHANGED <<settings, req, log, stdout, metric, files>>

\* score = self.supert_metric.calculate_score(prompt, generated_text);
\* total_score += score; print(...)
rt_score ==
    /\ tester.pc = "score"
    /\ LET call == Call("calculate_score", tester.i, tester.prompt,
                        tester.generated_text)
       IN  \E sim \in Similarities,
              ns \in sent_tokenize_len(tester.generated_text) :
             LET score == calculate_score(tester.prompt,
                                          tester.generated_text, sim, ns)
             IN  IF score.kind = "raise"
                 THEN tester' = [tester EXCEPT
                                   !.calls = Append(@, call),
                                   !.result = score,
                                   !.pc = "raised"]
                 ELSE tester' =
                        [tester EXCEPT
                           !.calls = Append(@, call),
                           !.total_score = RAdd(@, score.value),
                           !.console = Append(@,
                              [test |-> tester.i + 1,
                               prompt |-> tester.prompt,
                               generated_text |-> tester.generated_text,
                               score |-> score.value,
                               quality |-> interpret_score(score.value)]),
                           !.i = @ + 1,
                           !.pc = "loop"]
    /\ UNCHANGED <<settings, req, log, stdout, metric, files>>

\* average_score = total_score / num_tests; print(...); return average_score
rt_return ==
    /\ tester.pc = "loop"
    /\ tester.i >= tester.num_tests
    /\ IF tester.num_tests = 0
       THEN tester' = [tester EXCEPT !.result = Raised("ZeroDivisionError"),
                                     !.pc = "raised"]
       ELSE LET average_score ==
                    RDiv(tester.total_score, Int2Rat(tester.num_tests))
            IN  tester' =
                  [tester EXCEPT
                     !.console = Append(@,
                        [average |-> average_score,
                         quality |-> interpret_score(average_score)]),
                     !.result = Returned(average_score),
                     !.pc = "done"]
    /\ UNCHANGED <<settings, req, log, stdout, metric, files>>

----------------------------------------------------------------------------
(* The API served by one process *)

Init ==
    /\ settings \in [AUTH_KEY : Keys]
    /\ req = [r \in Requests |-> IdleRequest]
    /\ log = <<>>
    /\ stdout = <<>>
    /\ metric = IdleMetric
    /\ tester = IdleTester
    /\ files = {}

ArriveInference(r) ==
    \E k \in Keys, c \in InputContexts :
      Arrive(r, "inference", k, c, 0, InferenceMaxLength,
             InferenceTemperature)

ArriveBatch(r) ==
    \E k \in Keys, c \in InputContexts, n \in NumBatchesValues :
      Arrive(r, "batch_inference", k, c, n, BatchMaxLength, BatchTemperature)

ArriveLogin(r) ==
    \E k \in Keys : Arrive(r, "login", k, NoneVal, 0, 0, 0)

Next ==
    \E r \in Requests :
      \/ ArriveInference(r)
      \/ ArriveBatch(r)
      \/ ArriveLogin(r)
      \/ service_construct(r)
      \/ authenticate(r)
      \/ inference_generate(r)
      \/ batch_generate(r)
      \/ login_construct(r)
      \/ login_print(r)
      \/ login_return(r)

Spec == Init /\ [][Next]_vars

----------------------------------------------------------------------------
(* SUPERTMetric.calculate_score on every text of the bounded set *)

InitScore ==
    /\ settings \in [AUTH_KEY : Keys]
    /\ req = [r \in Requests |-> IdleRequest]
    /\ log = <<>>
    /\ stdout = <<>>
    /\ metric \in {[IdleMetric EXCEPT !.pc = "call", !.reference = ref,
                                      !.hypothesis = hyp] :
                      ref \in References, hyp \in Hypotheses}
    /\ tester = IdleTester
    /\ files = {}

NextScore == ScoreCall

SpecScore == InitScore /\ [][NextScore]_vars

----------------------------------------------------------------------------
(* tester.run_test(num_tests) *)

InitTest ==
    /\ settings = [AUTH_KEY |-> <<"a", "b", "1">>]
    /\ req = [r \in Requests |-> IdleRequest]
    /\ log = <<>>
    /\ stdout = <<>>
    /\ metric = IdleMetric
    /\ tester \in {[IdleTester EXCEPT !.pc = "loop", !.num_tests = n] :
                      n \in 0 .. MaxTests}
    /\ files = {}

NextTest ==
    \/ rt_generate_prompt
    \/ rt_generate_text
    \/ rt_score
    \/ rt_return

SpecTest == InitTest /\ [][NextTest]_vars

----------------------------------------------------------------------------
(* Properties of the API *)

Done(r) == req[r].pc = "done"
InvalidKey(r) == req[r].auth_key # settings.AUTH_KEY
Generating(r) == req[r].endpoint \in {"inference", "batch_inference"}

\* C1, as claimed: on each of the three endpoints a request whose auth_key
\* differs from the configured secret ends in an HTTP 500 response.
C1_AllEndpoints500 ==
    \A r \in Requests :
      Done(r) /\ InvalidKey(r) => req[r].response.status = 500

\* C1, amended: on inference and batch_inference a request whose auth_key
\* differs from the configured secret ends in an HTTP 500 response; on login
\* it ends in a 200 response whose body is {"authenticated": false}.
C1_InvalidKeyResponse ==
    \A r \in Requests :
      Done(r) /\ InvalidKey(r) =>
        /\ Generating(r) => req[r].response.status = 500
        /\ req[r].endpoint = "login" =>
             req[r].response = [status |-> 200,
                                body |-> [authenticated |-> FALSE]]

C1_Witness ==
    \E r, q \in Requests :
      /\ Done(r) /\ InvalidKey(r) /\ Generating(r)
      /\ req[r].exc = AuthErrorMsg /\ req[r].response.status = 500
      /\ Done(q) /\ InvalidKey(q) /\ req[q].endpoint = "login"
      /\ req[q].response.status = 200

\* C2: login answers {"authenticated": true} exactly when the key equals the
\* configured secret character for character, {"authenticated": false}
\* otherwise, and the dictionary it printed carries the same value.
C2_LoginIffEqual ==
    \A r \in Requests :
      Done(r) /\ req[r].endpoint = "login" =>
        LET same == (req[r].auth_key = settings.AUTH_KEY)
        IN  /\ req[r].response = [status |-> 200,
                                  body |-> [authenticated |-> same]]
            /\ req[r].printed = <<[authenticated |-> same]>>

C2_Witness ==
    \E r, q \in Requests :
      /\ Done(r) /\ req[r].endpoint = "login"
      /\ req[r].auth_key # settings.AUTH_KEY
      /\ Lower(req[r].auth_key) = Lower(settings.AUTH_KEY)
      /\ req[r].response.body.authenticated = FALSE
      /\ Done(q) /\ req[q].endpoint = "login"
      /\ req[q].auth_key = settings.AUTH_KEY
      /\ req[q].response.body.authenticated = TRUE

\* C3: on inference and batch_inference every exception raised by the
\* service constructor, the key check or the generation call is answered
\* with HTTP 500 whose detail is the endpoint's prefix followed by the
\* exception's message; a request that raised nothing is answered with the
\* service's output as it was returned.
C3_ExceptionsBecome500 ==
    \A r \in Requests :
      Generating(r) =>
        /\ req[r].ctor \notin {NoneVal, "ok"} => req[r].exc = req[r].ctor
        /\ req[r].gen.kind = "raise" => req[r].exc = req[r].gen.value
        /\ req[r].exc # NoneVal => Done(r)
        /\ Done(r) /\ req[r].exc # NoneVal =>
             /\ DOMAIN req[r].response = {"status", "detail"}
             /\ req[r].response.status = 500
             /\ req[r].response.detail =
                  (IF req[r].endpoint = "inference"
                   THEN "Text generation failed: "
                   ELSE "Batch text generation failed: ") \o req[r].exc
        /\ Done(r) /\ req[r].exc = NoneVal =>
             /\ req[r].gen.kind = "ok"
             /\ req[r].response.status = 200
             /\ req[r].response.body =
                  (IF req[r].endpoint = "inference"
                   THEN [generated_text |-> req[r].gen.value]
                   ELSE [generated_texts |-> req[r].gen.value])

C3_Witness ==
    \E r, q \in Requests :
      /\ Done(r) /\ req[r].endpoint = "inference"
      /\ req[r].gen.kind = "raise" /\ req[r].response.status = 500
      /\ Done(q) /\ req[q].endpoint = "batch_inference"
      /\ req[q].ctor \in CtorErrors /\ req[q].response.status = 500

BatchCall(r) == req[r].calls[1]

\* C4, as claimed: a successful batch_inference request returns exactly
\* num_batches texts, and the list handed to the service has num_batches
\* elements, each the input_context.
C4_LengthIsNumBatches ==
    \A r \in Requests :
      Done(r) /\ req[r].endpoint = "batch_inference"
        /\ req[r].response.status = 200 =>
          /\ Len(req[r].response.body.generated_texts) = req[r].num_batches
          /\ Len(BatchCall(r).input) = req[r].num_batches
          /\ \A i \in DOMAIN BatchCall(r).input :
               BatchCall(r).input[i] = req[r].input_context

\* C4, amended: a successful batch_inference request with num_batches >= 0
\* returns exactly num_batches texts and hands the service a list of
\* num_batches copies of input_context; with num_batches < 0 the list handed
\* to the service is empty and a successful response carries no text.
C4_LengthIsNonNegativeNumBatches ==
    \A r \in Requests :
      Done(r) /\ req[r].endpoint = "batch_inference"
        /\ req[r].response.status = 200 =>
          LET n == IF req[r].num_batches >= 0 THEN req[r].num_batches ELSE 0
          IN  /\ Len(req[r].response.body.generated_texts) = n
              /\ Len(BatchCall(r).input) = n
              /\ \A i \in DOMAIN BatchCall(r).input :
                   BatchCall(r).input[i] = req[r].input_context

C4_Witness ==
    \E r \in Requests :
      /\ Done(r) /\ req[r].endpoint = "batch_inference"
      /\ req[r].response.status = 200
      /\ req[r].num_batches = MaxBatches
      /\ Len(req[r].response.body.generated_texts) = MaxBatches

\* C8: the service's generation methods are called only after the key
\* check has passed; a request with an invalid key never calls them.
C8_CheckBeforeGeneration ==
    \A r \in Requests :
      /\ req[r].calls # <<>> =>
           req[r].checked /\ req[r].auth_key = settings.AUTH_KEY
      /\ InvalidKey(r) => req[r].calls = <<>> /\ req[r].gen = NoOutcome

C8_Witness ==
    \E r, q \in Requests :
      /\ Done(r) /\ Generating(r) /\ InvalidKey(r)
      /\ req[r].ctor = "ok" /\ req[r].calls = <<>>
      /\ Generating(q) /\ req[q].calls # <<>> /\ req[q].checked

\* the response a request gets when it is the only one being served
Alone(q) ==
    LET valid == (q.auth_key = settings.AUTH_KEY)
        failed(prefix, msg) == [status |-> 500, detail |-> prefix \o msg]
        answer(prefix, field) ==
            IF q.ctor # "ok" THEN failed(prefix, q.ctor)
            ELSE IF ~valid THEN failed(prefix, AuthErrorMsg)
            ELSE IF q.gen.kind = "raise" THEN failed(prefix, q.gen.value)
            ELSE [status |-> 200, body |-> field]
    IN  CASE q.endpoint = "login" ->
               [status |-> 200, body |-> [authenticated |-> valid]]
          [] q.endpoint = "inference" ->
               answer("Text generation failed: ",
                      [generated_text |-> q.gen.value])
          [] q.endpoint = "batch_inference" ->
               answer("Batch text generation failed: ",
                      [generated_texts |-> q.gen.value])

\* C10: however the steps of concurrent requests interleave, the response
\* of a request is the one it gets when served alone: a function of its own
\* parameters, the configured secret and the service's answers to it.
C10_ResponseAsIfAlone ==
    \A r \in Requests : Done(r) => req[r].response = Alone(req[r])

C10_Witness ==
    \E r, q \in Requests :
      /\ r # q
      /\ Done(r) /\ req[r].endpoint = "login"
      /\ req[q].endpoint = "login" /\ req[q].pc \in {"print", "return"}
      /\ req[q].auth_key # req[r].auth_key
      /\ Len(stdout) = 2 /\ stdout[1] # stdout[2]
      /\ stdout[2] = req[r].printed[1]

----------------------------------------------------------------------------
(* Properties of the scorer *)

\* the statistics of a text, counted from its words
W(text) == Len(split(text))
U(text) == Cardinality({Lower(w) : w \in Range(split(text))})
C(text) == SumLen(split(text))

ScoreDone == metric.pc = "done"

C6_InsightFormulaAndCap ==
    ScoreDone /\ W(metric.hypothesis) >= 1 /\ metric.num_sentences >= 1 =>
      LET w == W(metric.hypothesis)
          s == metric.num_sentences
          sum == 800 * U(metric.hypothesis) * s + 30 * w * w
                   + 60 * C(metric.hypothesis) * s
          one == 2000 * w * s
          v == metric.insight.value
      IN  /\ metric.insight.kind = "return"
          /\ v.n * one = v.d * (IF sum > one THEN one ELSE sum)
          /\ 0 <= v.n /\ v.n <= v.d
          /\ sum > one => v = [n |-> 1, d |-> 1]

C6_Witness ==
    /\ ScoreDone
    /\ metric.num_sentences >= 1
    /\ U(metric.hypothesis) = W(metric.hypothesis)
    /\ 800 * U(metric.hypothesis) * metric.num_sentences
         + 30 * W(metric.hypothesis) * W(metric.hypothesis)
         + 60 * C(metric.hypothesis) * metric.num_sentences
       > 2000 * W(metric.hypothesis) * metric.num_sentences
    /\ metric.insight = Returned(Int2Rat(1))

----------------------------------------------------------------------------
(* Properties of run_test *)

LastCall == tester.calls[Len(tester.calls)]

\* C7: a generated text without words (empty or blank) makes the scorer
\* raise ZeroDivisionError; run_test does not catch it, so the run ends with
\* that error and no score, in particular not 0, is produced for the text.
C7_EmptyHypothesisRaises ==
    \A k \in DOMAIN tester.calls :
      tester.calls[k].fn = "calculate_score"
        /\ split(tester.calls[k].text) = <<>> =>
          /\ k = Len(tester.calls)
          /\ tester.pc = "raised"
          /\ tester.result = Raised("ZeroDivisionError")
          /\ Len(tester.console) = tester.i

C7_Witness ==
    /\ tester.calls # <<>>
    /\ LastCall.fn = "calculate_score"
    /\ LastCall.text = <<" ">>
    /\ tester.pc = "raised"
    /\ tester.i >= 1

RECURSIVE SumScores(_)
SumScores(rows) ==
    IF rows = <<>> THEN Int2Rat(0)
    ELSE RAdd(Head(rows).score, SumScores(Tail(rows)))

\* the calls of iteration k (counted from 0) happened in the order sampler,
\* inference on the sampled prompt, scorer on that prompt and its text
IterationInOrder(k) ==
    LET a == tester.calls[3 * k + 1]
        b == tester.calls[3 * k + 2]
        c == tester.calls[3 * k + 3]
        row == tester.console[k + 1]
    IN  /\ a.fn = "generate_prompt" /\ a.i = k
        /\ b.fn = "generate_text" /\ b.i = k /\ b.prompt = row.prompt
        /\ c.fn = "calculate_score" /\ c.i = k
        /\ c.prompt = b.prompt /\ c.text = row.generated_text
        /\ row.test = k + 1

RunInOrder ==
    /\ tester.i = tester.num_tests
    /\ Len(tester.calls) = 3 * tester.num_tests
    /\ Len(tester.console) = tester.num_tests + 1
    /\ \A k \in 0 .. tester.num_tests - 1 : IterationInOrder(k)
    /\ tester.result.kind = "return"
    /\ LET total == SumScores(SubSeq(tester.console, 1, tester.num_tests))
           avg == tester.result.value
       IN  avg.n * total.d * tester.num_tests = total.n * avg.d

====
